---- MODULE Spec2Model ----
(***************************************************************************)
(* python-daemon2: the Launcher (daemon2/launcher.py) that detaches a      *)
(* Daemon (daemon2/background.py) with a double fork and a handshake pipe, *)
(* and the controller-side queries running / process / pid.                *)
(*                                                                         *)
(* Every Launcher lives in a controller process of its own.  OS processes  *)
(* created by os.fork() are entries of `proc'; each one advances one       *)
(* statement group at a time, so that every interleaving of the controller,*)
(* the first child and the grandchild is explored.                         *)
(***************************************************************************)
EXTENDS Integers, Sequences, FiniteSets, TLC

(* ------------------------------ bounds -------------------------------- *)

\* Pids handed out by os.fork() are FirstPid .. MaxPid, in order, never reused.
FirstPid == 9
MaxPid == 12
\* Fork protocols one Launcher may begin.
MaxStarts == 2
\* SIGTERMs delivered to daemons in one run.
MaxSignals == 1
\* Calls of Launcher methods and memoizing properties the controllers make in one run.
MaxCalls == 2

Launchers == {"L1", "L2"}
Paths == {"p1", "p2"}
Pids == FirstPid .. MaxPid

(* --------------------------- python values ---------------------------- *)

\* Python's None where the code holds "a pid or None" (launcher.py:41).
None == -1
\* Launcher(pidfile=None): the launcher has no PID file (launcher.py:44).
NoPidfile == "nopidfile"

\* Truth value of a pid-or-None in `if pid:' and `pid1 or pid2'.
Truthy(x) == x # None /\ x # 0

PyOr(a, b) == IF Truthy(a) THEN a ELSE b

Digit == <<"0", "1", "2", "3", "4", "5", "6", "7", "8", "9">>

DigitVal(c) == (CHOOSE i \in 1..10 : Digit[i] = c) - 1

RECURSIVE IntToStr(_)
\* str(os.getpid()): the decimal text of a non-negative integer.
IntToStr(n) ==
    IF n < 10 THEN <<Digit[n + 1]>>
    ELSE IntToStr(n \div 10) \o <<Digit[(n % 10) + 1]>>

RECURSIVE StrToIntMutant(_)
StrToIntMutant(s) ==
    IF s = <<>> THEN 0
    ELSE StrToIntMutant(Tail(s)) * 10 + DigitVal(Head(s))

RECURSIVE StrToInt(_)
\* int(txtPid): the whole buffer read as a decimal integer.
StrToInt(s) ==
    IF s = <<>> THEN 0
    ELSE StrToInt(SubSeq(s, 1, Len(s) - 1)) * 10 + DigitVal(s[Len(s)])

(* ------------------------------- state -------------------------------- *)

VARIABLES
    daemonCls,     \* class of the daemon objects handed to start
    pidfileOf,     \* per launcher: path of its PID file, or NoPidfile
    nested,        \* the second launcher is created and started by the first one's target
    lpc,           \* per launcher: position of its controller inside start
    callOp,        \* per launcher: the public method whose fork protocol is in flight
    spawnedPid,    \* Launcher._spawnedPid
    processCache,  \* Launcher._processCache
    gen,           \* per launcher: fork protocols begun (names the current pipe)
    pipeData,      \* per launcher: bytes written to the current handshake pipe
    proc,          \* OS process table, by pid
    nextPid,       \* next pid os.fork() hands out
    pidfile,       \* per path: pid persisted in the locked PID file, or None
    flag,          \* per launcher: the event its daemon's target sets
    last,          \* the most recent call or return of a Launcher method or property
    concurrent,    \* per launcher: its latest start overlapped another start on the same path
    calls,         \* calls of start, restart, terminate, running and process so far
    fds,           \* per launcher: ends of its handshake pipes open in the process that uses it
    dm             \* one daemonization seen from inside the forked process (DaemonSpec)

vars == <<daemonCls, pidfileOf, nested, lpc, callOp, spawnedPid, processCache,
          gen, pipeData, proc, nextPid, pidfile, flag, last, concurrent, calls, fds, dm>>

\* What no step of a Launcher or of its processes changes.
config == <<daemonCls, pidfileOf, nested, dm>>

\* test_double_daemon_spawn: the target of the daemon of Outer builds a
\* Launcher on a PID file of its own and starts a second daemon with it.
Outer == "L1"
Inner == "L2"

\* "Daemon" is background.Daemon itself; "Override" is a subclass (the hook is
\* BoundLauncher.backgroundDaemonCls) whose setupProcessSession takes the list
\* of descriptors that launcher.py:170 passes.
DaemonClasses == {"Daemon", "Override"}

\* How the launchers are bound to PID files: to the same path, to two paths,
\* or one of them to none.
PidfileBindings ==
    {[L \in Launchers |-> "p1"],
     [L \in Launchers |-> IF L = "L1" THEN "p1" ELSE "p2"],
     [L \in Launchers |-> IF L = "L1" THEN "p1" ELSE NoPidfile]}

\* `acq': this process has acquired the PID file; `rel': the calls of
\* pidfile.release() it has completed; `err': the exception that ended it.
\* Nesting needs the two launchers on two PID files.
NestedBinding == [L \in Launchers |-> IF L = Outer THEN "p1" ELSE "p2"]

\* `did': the steps of the grandchild branch this process has made, in order.
NoProc == [pc |-> "none", role |-> "none", owner |-> "-", gen |-> 0,
           w |-> FALSE, term |-> FALSE, rc |-> None, err |-> "none",
           acq |-> FALSE, rel |-> 0, did |-> <<>>]

\* Open descriptors of the read end and of the write end.
NoFds == [r |-> 0, w |-> 0]

EmptyCache == [set |-> FALSE, pid |-> None, proc |-> None]

\* `last': which method of which launcher, at its call or at its return; the
\* exception that left it; the type and value of what it returned; whether the
\* launcher's pid named a live process when it was called; whether a live
\* process held the launcher's PID file then; and, for a start that read the
\* pipe, the text read.
NoCall == [L |-> "-", op |-> "none", at |-> "-", exc |-> "none", kind |-> "-",
           ret |-> None, live |-> FALSE, held |-> FALSE, data |-> <<>>]

\* The record `dm' before a daemonization is followed step by step: the
\* options of the Daemon object (chroot_directory given, prevent_core, the
\* process's gid / uid already the target ones), the OS call that will fail
\* (0: none), the signal map, and what the process has done so far.
NoDaemon ==
    [pc |-> "idle",
     opts |-> [chroot |-> FALSE, prevent_core |-> FALSE, gidEq |-> TRUE, uidEq |-> TRUE],
     failAt |-> 0, done |-> <<>>, exc |-> "none",
     signal_map |-> <<>>, given |-> FALSE, handlers |-> <<>>,
     held |-> FALSE, events |-> <<>>, sigterm |-> FALSE, rc |-> None]

LauncherInit ==
    /\ daemonCls \in DaemonClasses
    /\ pidfileOf \in PidfileBindings
    /\ nested \in {FALSE} \cup (IF pidfileOf = NestedBinding THEN {TRUE} ELSE {})
    /\ lpc = [L \in Launchers |-> "idle"]
    /\ callOp = [L \in Launchers |-> "-"]
    /\ spawnedPid = [L \in Launchers |-> None]
    /\ processCache = [L \in Launchers |-> EmptyCache]
    /\ gen = [L \in Launchers |-> 0]
    /\ pipeData = [L \in Launchers |-> <<>>]
    /\ proc = [p \in Pids |-> NoProc]
    /\ nextPid = FirstPid
    /\ pidfile = [f \in Paths |-> None]
    /\ flag = [L \in Launchers |-> FALSE]
    /\ last = NoCall
    /\ concurrent = [L \in Launchers |-> FALSE]
    /\ calls = 0
    /\ fds = [L \in Launchers |-> NoFds]

Init ==
    /\ dm = NoDaemon
    /\ LauncherInit

(* ------------------------- the OS process table ------------------------ *)

\* A process with this pid exists (psutil.Process(pid) does not raise NoSuchProcess).
Exists(p) == p \in Pids /\ proc[p].pc \notin {"none", "exited"}

\* Processes that hold the write end of launcher L's current pipe open.
Writers(L) ==
    {p \in Pids : Exists(p) /\ proc[p].owner = L /\ proc[p].gen = gen[L] /\ proc[p].w}

\* select.select([pidRead], (), (), 10) reports the read end readable: there is
\* data, or every write end is closed (end of file).
Readable(L) == pipeData[L] # <<>> \/ Writers(L) = {}

(* ------------------------------ PID file ------------------------------- *)

PidfileReadPid(f) == pidfile[f]

PidfileCanAcquire(f) == pidfile[f] = None \/ ~Exists(pidfile[f])

PidfileAcquired(f, p) == [pidfile EXCEPT ![f] = p]

PidfileReleased(f, p) == IF pidfile[f] = p THEN [pidfile EXCEPT ![f] = None] ELSE pidfile

(* ------------------------- Launcher properties ------------------------- *)

PidQueryMutant(L) ==
    LET pid1 == spawnedPid[L]
        pid2 == IF pidfileOf[L] # NoPidfile THEN PidfileReadPid(pidfileOf[L]) ELSE None
    IN  PyOr(pid2, pid1)

\* Launcher.pid
PidQuery(L) ==
    LET pid1 == spawnedPid[L]
        pid2 == IF pidfileOf[L] # NoPidfile THEN PidfileReadPid(pidfileOf[L]) ELSE None
    IN  PyOr(pid1, pid2)

\* Launcher.process: the memo after the call, and the object returned.  A
\* handle psutil.Process(pid) is written by its pid; `kind' is the Python
\* type of the returned object.
ProcessQuery(L) ==
    LET pid == PidQuery(L)
        old == processCache[L]
        new == IF (~old.set) \/ pid # old.pid
               THEN [set |-> TRUE, pid |-> pid,
                     proc |-> IF Truthy(pid) /\ Exists(pid) THEN pid ELSE None]
               ELSE old
    IN  [cache |-> new,
         ret |-> new.pid,
         kind |-> IF new.pid = None THEN "none" ELSE "int"]

\* handle.is_running()
IsRunning(h) == Exists(h)

\* Launcher.running: `exc' is the exception that escapes, if any.
RunningQuery(L) ==
    LET q == ProcessQuery(L)
    IN  IF Truthy(q.ret)
        THEN IF q.kind = "Process"
             THEN [cache |-> q.cache, exc |-> "none", ret |-> IsRunning(q.ret)]
             ELSE [cache |-> q.cache, exc |-> "AttributeError", ret |-> FALSE]
        ELSE [cache |-> q.cache, exc |-> "none", ret |-> FALSE]

\* The pid this launcher reports resolves to an existing, alive OS process.
TrackedAlive(L) == PidQuery(L) # None /\ Exists(PidQuery(L))

\* The PID file of this launcher is locked by a live process whose pid it holds.
HeldByLive(L) ==
    /\ pidfileOf[L] # NoPidfile
    /\ PidfileReadPid(pidfileOf[L]) # None
    /\ Exists(PidfileReadPid(pidfileOf[L]))

Call(L, op, exc, kind, ret) ==
    [L |-> L, op |-> op, at |-> "call", exc |-> exc, kind |-> kind, ret |-> ret,
     live |-> TrackedAlive(L), held |-> HeldByLive(L), data |-> <<>>]

Return(L, op, kind, ret, data) ==
    [L |-> L, op |-> op, at |-> "return", exc |-> "none", kind |-> kind, ret |-> ret,
     live |-> FALSE, held |-> FALSE, data |-> data]

BoolInt(b) == IF b THEN 1 ELSE 0

(* --------------------------- query actions ----------------------------- *)

\* Launcher L is used by a controller process of its own (not from a target).
HasController(L) == ~(nested /\ L = Inner)

QueryUnchanged ==
    UNCHANGED <<config, lpc, callOp, spawnedPid, gen, pipeData, proc, nextPid,
                pidfile, flag, concurrent, fds>>

\* launcher.running
Running(L) ==
    /\ HasController(L)
    /\ lpc[L] = "idle"
    /\ calls < MaxCalls
    /\ calls' = calls + 1
    /\ LET r == RunningQuery(L)
       IN  /\ processCache' = [processCache EXCEPT ![L] = r.cache]
           /\ last' = IF r.exc # "none"
                      THEN Call(L, "running", r.exc, "-", None)
                      ELSE Call(L, "running", "none", "bool", BoolInt(r.ret))
    /\ QueryUnchanged

\* launcher.process
Process(L) ==
    /\ HasController(L)
    /\ lpc[L] = "idle"
    /\ calls < MaxCalls
    /\ calls' = calls + 1
    /\ LET q == ProcessQuery(L)
       IN  /\ processCache' = [processCache EXCEPT ![L] = q.cache]
           /\ last' = Call(L, "process", "none", q.kind, q.ret)
    /\ QueryUnchanged

\* launcher.pid: reads, and changes nothing of the launcher.
Pid(L) ==
    /\ HasController(L)
    /\ lpc[L] = "idle"
    /\ last' = Call(L, "pid", "none",
                    IF PidQuery(L) = None THEN "none" ELSE "int", PidQuery(L))
    /\ UNCHANGED <<processCache, calls>>
    /\ QueryUnchanged

(* ------------------- Launcher.start / restart / terminate -------------- *)

\* (pidRead, pidWrite) = os.pipe()
OsPipe(fd, L) == [fd EXCEPT ![L] = [r |-> @.r + 1, w |-> @.w + 1]]

\* The `with' statement over os.fdopen(pidRead, "r") closes pidRead.
FdopenClosed(fd, L) == [fd EXCEPT ![L].r = @ - 1]

\* util.close_fd(pidWrite): the descriptor is closed.
CloseFd(fd, L) == [fd EXCEPT ![L].w = @ - 1]

\* Another launcher bound to the same PID file path is inside its fork protocol.
Overlapping(L) ==
    {M \in Launchers \ {L} :
        /\ lpc[M] # "idle"
        /\ pidfileOf[M] # NoPidfile
        /\ pidfileOf[M] = pidfileOf[L]}

\* A method raises: nothing but the memo (already set) and `last' changes.
Raise(L, op, exc) ==
    /\ last' = Call(L, op, exc, "-", None)
    /\ UNCHANGED <<config, lpc, callOp, spawnedPid, gen, pipeData, proc, nextPid,
                   pidfile, flag, concurrent, fds>>

\* Launcher._forkDaemon up to the controller's select: os.pipe(), the first
\* fork, and in the parent util.close_fd(pidWrite).
ForkDaemonBegin(L, op) ==
    \/ \* os.fork() raises OSError: DaemonProcessDetachError leaves start, and
       \* nothing closes the pipe
       /\ last' = Call(L, op, "DaemonProcessDetachError", "-", None)
       /\ fds' = OsPipe(fds, L)
       /\ UNCHANGED <<config, lpc, callOp, spawnedPid, gen, pipeData, proc, nextPid,
                      pidfile, flag, concurrent>>
    \/ /\ nextPid <= MaxPid
       /\ gen[L] < MaxStarts
       /\ gen' = [gen EXCEPT ![L] = @ + 1]
       /\ pipeData' = [pipeData EXCEPT ![L] = <<>>]
       /\ proc' = [proc EXCEPT ![nextPid] =
                      [NoProc EXCEPT !.pc = "setsid", !.role = "child",
                                     !.owner = L, !.gen = gen[L] + 1, !.w = TRUE]]
       /\ nextPid' = nextPid + 1
       /\ lpc' = [lpc EXCEPT ![L] = "select"]
       /\ callOp' = [callOp EXCEPT ![L] = op]
       /\ concurrent' = [M \in Launchers |->
                            IF M = L THEN Overlapping(L) # {}
                            ELSE concurrent[M] \/ M \in Overlapping(L)]
       /\ last' = Call(L, op, "none", "pending", None)
       /\ fds' = CloseFd(OsPipe(fds, L), L)
       /\ UNCHANGED <<config, spawnedPid, pidfile, flag>>

\* Launcher.start from its entry to the select of _forkDaemon.
StartBody(L, op) ==
    LET r == RunningQuery(L)
    IN  /\ processCache' = [processCache EXCEPT ![L] = r.cache]
        /\ IF r.exc # "none"
           THEN Raise(L, op, r.exc)
           ELSE IF r.ret
                THEN Raise(L, op, "AlreadyRunning")
                ELSE ForkDaemonBegin(L, op)

Start(L) ==
    /\ HasController(L)
    /\ lpc[L] = "idle"
    /\ calls < MaxCalls
    /\ calls' = calls + 1
    /\ StartBody(L, "start")

\* process.terminate(), then process.wait(timeout) when block is set.
TerminateSend(L, op, block, q) ==
    /\ proc' = [p \in Pids |->
                   IF q.kind = "Process" /\ p = q.ret /\ Exists(p)
                   THEN [proc[p] EXCEPT !.term = TRUE] ELSE proc[p]]
    /\ lpc' = [lpc EXCEPT ![L] = IF block THEN "wait" ELSE "idle"]
    /\ callOp' = [callOp EXCEPT ![L] = IF block THEN op ELSE "-"]
    /\ last' = Call(L, op, "none", IF block THEN "pending" ELSE "none", None)
    /\ UNCHANGED <<config, spawnedPid, gen, pipeData, nextPid, pidfile, flag,
                   concurrent, fds>>

Terminate(L, block) ==
    /\ HasController(L)
    /\ lpc[L] = "idle"
    /\ calls < MaxCalls
    /\ calls' = calls + 1
    /\ LET r == RunningQuery(L)
       IN  /\ processCache' = [processCache EXCEPT ![L] = r.cache]
           /\ IF r.exc # "none"
              THEN Raise(L, "terminate", r.exc)
              ELSE IF ~r.ret
                   THEN Raise(L, "terminate", "NotRunning")
                   ELSE TerminateSend(L, "terminate", block, ProcessQuery(L))

\* Launcher.restart (BoundLauncher.restart passes its own daemon object).
Restart(L) ==
    /\ HasController(L)
    /\ lpc[L] = "idle"
    /\ calls < MaxCalls
    /\ calls' = calls + 1
    /\ LET r == RunningQuery(L)
       IN  IF r.exc = "none" /\ r.ret
           THEN /\ processCache' = [processCache EXCEPT ![L] = r.cache]
                /\ TerminateSend(L, "restart", TRUE, ProcessQuery(L))
           ELSE StartBody(L, "restart")

\* The controller's select timed out after 10 seconds with nothing to read:
\* childPid = None, and start stores and returns it.  pidRead stays open.
StartSelectTimeout(L) ==
    /\ lpc[L] = "select"
    /\ ~Readable(L)
    /\ spawnedPid' = [spawnedPid EXCEPT ![L] = None]
    /\ lpc' = [lpc EXCEPT ![L] = "idle"]
    /\ callOp' = [callOp EXCEPT ![L] = "-"]
    /\ last' = Return(L, callOp[L], "none", None, <<>>)
    /\ UNCHANGED <<config, calls, processCache, gen, pipeData, proc, nextPid, pidfile,
                   flag, concurrent, fds>>

ParsePidMutant(txtPid) == StrToInt(txtPid)

\* txtPid = fobj.read(): the pid when there is text, None when there is none.
ParsePid(txtPid) == IF txtPid # <<>> THEN StrToInt(txtPid) ELSE None

\* select reported the read end readable; fobj.read() returns at end of file,
\* that is once every write end is closed.
StartRead(L) ==
    /\ lpc[L] = "select"
    /\ Readable(L)
    /\ Writers(L) = {}
    /\ LET txtPid == pipeData[L]
           childPid == ParsePid(txtPid)
       IN  /\ spawnedPid' = [spawnedPid EXCEPT ![L] = childPid]
           /\ last' = Return(L, callOp[L], IF childPid = None THEN "none" ELSE "int",
                              childPid, txtPid)
    /\ lpc' = [lpc EXCEPT ![L] = "idle"]
    /\ callOp' = [callOp EXCEPT ![L] = "-"]
    /\ fds' = FdopenClosed(fds, L)
    /\ UNCHANGED <<config, calls, processCache, gen, pipeData, proc, nextPid, pidfile,
                   flag, concurrent>>

(* --------------------- the first child of _forkDaemon ------------------ *)

ProcUnchanged ==
    UNCHANGED <<config, calls, lpc, callOp, spawnedPid, processCache, gen, pipeData,
                nextPid, pidfile, flag, last, concurrent, fds>>

\* The process is left by an exception that escaped from start ("escaped"):
\* it goes on in the code that called start.
Escaped(p, exc) == [proc EXCEPT ![p].pc = "escaped", ![p].err = exc]

\* As ChildBranch, but the process that forked carries on into the branch of
\* the second child.
ChildBranchMutant(p) ==
    /\ proc[p].pc = "setsid"
    /\ \/ /\ daemonCls = "Daemon"
          /\ proc' = [proc EXCEPT ![p].pc = "escaped", ![p].err = "TypeError"]
          /\ UNCHANGED nextPid
       \/ /\ daemonCls = "Override"
          /\ \/ /\ proc' = [proc EXCEPT ![p].pc = "escaped",
                                         ![p].err = "DaemonOSEnvironmentError"]
                /\ UNCHANGED nextPid
             \/ /\ proc' = [proc EXCEPT ![p].pc = "escaped",
                                         ![p].err = "DaemonProcessDetachError"]
                /\ UNCHANGED nextPid
             \/ /\ nextPid <= MaxPid
                /\ proc' = [proc EXCEPT
                              ![p].pc = "write",
                              ![nextPid] = [NoProc EXCEPT
                                               !.pc = "write", !.role = "grandchild",
                                               !.owner = proc[p].owner,
                                               !.gen = proc[p].gen, !.w = TRUE]]
                /\ nextPid' = nextPid + 1
    /\ UNCHANGED <<config, calls, lpc, callOp, spawnedPid, processCache, gen, pipeData,
                   pidfile, flag, last, concurrent, fds>>

\* The child branch up to the try: os.setsid(),
\* daemon.setupProcessSession([pidWrite]), pid = _fork(u"Failed second fork").
\* background.Daemon declares setupProcessSession(self), so the call with one
\* argument raises TypeError.  None of the three statements is inside the try:
\* an exception leaves _forkDaemon and start in the child process.
ChildBranch(p) ==
    /\ proc[p].pc = "setsid"
    /\ \/ /\ daemonCls = "Daemon"
          /\ proc' = Escaped(p, "TypeError")
          /\ UNCHANGED nextPid
       \/ /\ daemonCls = "Override"
          /\ \/ \* a step of the session setup raises
                /\ proc' = Escaped(p, "DaemonOSEnvironmentError")
                /\ UNCHANGED nextPid
             \/ \* os.fork() raises OSError
                /\ proc' = Escaped(p, "DaemonProcessDetachError")
                /\ UNCHANGED nextPid
             \/ /\ nextPid <= MaxPid
                /\ proc' = [proc EXCEPT
                              ![p].pc = "exit",
                              ![nextPid] = [NoProc EXCEPT
                                               !.pc = "write", !.role = "grandchild",
                                               !.owner = proc[p].owner,
                                               !.gen = proc[p].gen, !.w = TRUE]]
                /\ nextPid' = nextPid + 1
    /\ UNCHANGED <<config, calls, lpc, callOp, spawnedPid, processCache, gen, pipeData,
                   pidfile, flag, last, concurrent, fds>>

\* The first child after its fork: `if not pid' is false, finally: os._exit(0).
ChildExit(p) ==
    /\ proc[p].pc = "exit"
    /\ proc' = [proc EXCEPT ![p].pc = "exited", ![p].w = FALSE, ![p].rc = 0]
    /\ ProcUnchanged

\* A child that escaped from start runs its caller's code for a while, still
\* holding the write end, and ends at some point.  When the caller is a
\* daemon's target, the child is a copy of that daemon: the exception ends in
\* the except clause of run, release() finds the lock is not this process's,
\* and the copy leaves through os._exit(0) of the enclosing _forkDaemon.
EscapedExit(p) ==
    /\ proc[p].pc = "escaped"
    /\ proc' = [proc EXCEPT ![p].pc = "exited", ![p].w = FALSE,
                            ![p].rc = IF HasController(proc[p].owner) THEN 1 ELSE 0]
    /\ ProcUnchanged

(* ------------------ the grandchild: pipe write, Daemon.run ------------- *)

\* with os.fdopen(pidWrite, "w") as fobj: fobj.write(str(os.getpid()))
\* The bytes reach the pipe this process was forked with; the pipe of a start
\* that has already returned has no reader left.
GrandchildWritePid(p) ==
    /\ proc[p].pc = "write"
    /\ LET L == proc[p].owner
       IN  pipeData' = IF proc[p].gen = gen[L]
                       THEN [pipeData EXCEPT ![L] = @ \o IntToStr(p)]
                       ELSE pipeData
    /\ proc' = [proc EXCEPT ![p].pc = "run", ![p].w = FALSE,
                            ![p].did = <<"write", "close">>]
    /\ UNCHANGED <<config, calls, lpc, callOp, spawnedPid, processCache, gen, nextPid,
                   pidfile, flag, last, concurrent, fds>>

RunPrologueMutant == <<"acquire", "configureSystem">>

\* The first two statements of Daemon.run.
RunPrologue == <<"configureSystem", "acquire">>

\* The statements of the prologue made when acquire raises.
RunPrologueFailed == SelectSeq(RunPrologue, LAMBDA e : e # "acquire")

\* Daemon.run up to the try: self.configureSystem(), pidfile.acquire(None).
\* Without a PID file the call is None.acquire: AttributeError.  On a held lock
\* acquire raises AlreadyLocked, or keeps waiting for the lock.  An exception
\* out of run ends in the finally of _forkDaemon: os._exit(0).
DaemonAcquire(p) ==
    /\ proc[p].pc = "run"
    /\ LET f == pidfileOf[proc[p].owner]
       IN  \/ /\ f = NoPidfile
              /\ proc' = [proc EXCEPT ![p].pc = "exited", ![p].rc = 0,
                                      ![p].err = "AttributeError",
                                      ![p].did = @ \o RunPrologueFailed]
              /\ UNCHANGED pidfile
           \/ /\ f # NoPidfile
              /\ PidfileCanAcquire(f)
              /\ pidfile' = PidfileAcquired(f, p)
              /\ proc' = [proc EXCEPT ![p].pc = "target", ![p].acq = TRUE,
                                      ![p].did = @ \o RunPrologue]
           \/ /\ f # NoPidfile
              /\ ~PidfileCanAcquire(f)
              /\ proc' = [proc EXCEPT ![p].pc = "exited", ![p].rc = 0,
                                      ![p].err = "AlreadyLocked",
                                      ![p].did = @ \o RunPrologueFailed]
              /\ UNCHANGED pidfile
    /\ UNCHANGED <<config, calls, lpc, callOp, spawnedPid, processCache, gen, pipeData,
                   nextPid, flag, last, concurrent, fds>>

\* Exit code Daemon.run ends with: rc = 254 before the try; rc = 255 in the
\* except clause; the inner finally then assigns rc = 0 on every path.
RcAtTry == 254

RunExitCode(raised) ==
    LET atTry == RcAtTry
        afterExcept == IF raised THEN 255 ELSE atTry
        afterFinally == 0
    IN  IF afterExcept >= 0 THEN afterFinally ELSE afterExcept

\* Daemon.run: setupLogging(), self.target() inside try / except / finally.
\* The target sets its flag first, then returns or raises.
DaemonTarget(p) ==
    /\ proc[p].pc = "target"
    /\ ~(nested /\ proc[p].owner = Outer)
    /\ \E raised \in BOOLEAN :
          /\ flag' = [flag EXCEPT ![proc[p].owner] = TRUE]
          /\ proc' = [proc EXCEPT ![p].pc = "release", ![p].rc = RunExitCode(raised),
                                  ![p].err = IF raised THEN "TargetError" ELSE @,
                                  ![p].did = Append(@, "target")]
    /\ UNCHANGED <<config, calls, lpc, callOp, spawnedPid, processCache, gen, pipeData,
                   nextPid, pidfile, last, concurrent, fds>>

\* Daemon.run with the target of test_double_daemon_spawn (_daemon1_func):
\* d2 = Launcher(locks[1]); d2.start(payload), up to the select of d2's
\* _forkDaemon.  d2 is a new Launcher: no spawned pid, no memo.  An exception
\* of start (running on a held PID file, a failed fork) is a failure of target.
NestedTargetStart(p) ==
    /\ proc[p].pc = "target"
    /\ nested
    /\ proc[p].owner = Outer
    /\ lpc[Inner] = "idle"
    /\ flag' = [flag EXCEPT ![Outer] = TRUE]
    /\ LET pid == PyOr(None, PidfileReadPid(pidfileOf[Inner]))
           memo == [set |-> TRUE, pid |-> pid,
                    proc |-> IF Truthy(pid) /\ Exists(pid) THEN pid ELSE None]
           failed(exc) ==
               /\ proc' = [proc EXCEPT ![p].pc = "release",
                                       ![p].rc = RunExitCode(TRUE), ![p].err = exc,
                                       ![p].did = Append(@, "target")]
               /\ last' = [Call(Inner, "start", exc, "-", None) EXCEPT
                              !.live = Truthy(pid) /\ Exists(pid)]
               /\ fds' = IF exc = "DaemonProcessDetachError"
                         THEN OsPipe(fds, Inner) ELSE fds
               /\ UNCHANGED <<lpc, callOp, gen, pipeData, nextPid>>
       IN  /\ spawnedPid' = [spawnedPid EXCEPT ![Inner] = None]
           /\ processCache' = [processCache EXCEPT ![Inner] = memo]
           /\ IF Truthy(pid)
              THEN failed("AttributeError")
              ELSE \/ failed("DaemonProcessDetachError")
                   \/ /\ nextPid <= MaxPid
                      /\ gen[Inner] < MaxStarts
                      /\ gen' = [gen EXCEPT ![Inner] = @ + 1]
                      /\ pipeData' = [pipeData EXCEPT ![Inner] = <<>>]
                      /\ proc' = [proc EXCEPT
                                    ![p].pc = "nested",
                                    ![p].did = Append(@, "target"),
                                    ![nextPid] = [NoProc EXCEPT
                                                     !.pc = "setsid", !.role = "child",
                                                     !.owner = Inner,
                                                     !.gen = gen[Inner] + 1,
                                                     !.w = TRUE]]
                      /\ nextPid' = nextPid + 1
                      /\ lpc' = [lpc EXCEPT ![Inner] = "select"]
                      /\ callOp' = [callOp EXCEPT ![Inner] = "start"]
                      /\ last' = [Call(Inner, "start", "none", "pending", None) EXCEPT
                                     !.live = FALSE]
                      /\ fds' = CloseFd(OsPipe(fds, Inner), Inner)
    /\ UNCHANGED <<config, calls, pidfile, concurrent>>

\* d2.start has returned in the daemon of Outer: its target returns.
NestedTargetReturn(p) ==
    /\ proc[p].pc = "nested"
    /\ lpc[Inner] = "idle"
    /\ proc' = [proc EXCEPT ![p].pc = "release", ![p].rc = RunExitCode(FALSE)]
    /\ ProcUnchanged

\* Daemon.run, outer finally: pidfile.release(); os._exit(rc)
DaemonRelease(p) ==
    /\ proc[p].pc = "release"
    /\ pidfile' = PidfileReleased(pidfileOf[proc[p].owner], p)
    /\ proc' = [proc EXCEPT ![p].pc = "exited", ![p].rel = @ + 1]
    /\ UNCHANGED <<config, calls, lpc, callOp, spawnedPid, processCache, gen, pipeData,
                   nextPid, flag, last, concurrent, fds>>

\* Processes that onTerminateSignal has interrupted.
Signalled == {p \in Pids : proc[p].err \in {"SIGTERM", "SystemExit"}}

\* SIGTERM reaches a daemon whose handlers configureSystem has installed:
\* onTerminateSignal raises SystemExit at the statement of run being executed.
\*   before acquire: SystemExit leaves run, finally of _forkDaemon: os._exit(0);
\*   after acquire, before the try: the same, and nothing releases the file;
\*   in setupLogging: outer finally, with rc as set before the try;
\*   in target: the bare except catches it, like any failure of target;
\*   in the outer finally: os._exit(rc) is skipped, before or after the release.
OnTerminateSignal(p) ==
    /\ proc[p].role = "grandchild"
    /\ p \notin Signalled
    /\ Cardinality(Signalled) < MaxSignals
    /\ LET f == pidfileOf[proc[p].owner]
           left == [proc[p] EXCEPT !.pc = "exited", !.rc = 0, !.err = "SystemExit"]
       IN  \/ /\ proc[p].pc = "run"
              /\ proc' = [proc EXCEPT ![p] = [left EXCEPT !.did = @ \o RunPrologueFailed]]
              /\ UNCHANGED <<pidfile, lpc, callOp>>
           \/ /\ proc[p].pc = "target"
              /\ \/ proc' = [proc EXCEPT ![p] = left]
                 \/ proc' = [proc EXCEPT ![p].pc = "release", ![p].rc = RcAtTry,
                                         ![p].err = "SIGTERM"]
                 \/ proc' = [proc EXCEPT ![p].pc = "release",
                                         ![p].rc = RunExitCode(TRUE),
                                         ![p].err = "SIGTERM",
                                         ![p].did = Append(@, "target")]
              /\ UNCHANGED <<pidfile, lpc, callOp>>
           \/ \* in the select of the start its target has called
              /\ proc[p].pc = "nested"
              /\ proc' = [proc EXCEPT ![p].pc = "release",
                                      ![p].rc = RunExitCode(TRUE),
                                      ![p].err = "SIGTERM"]
              /\ lpc' = [lpc EXCEPT ![Inner] = "idle"]
              /\ callOp' = [callOp EXCEPT ![Inner] = "-"]
              /\ UNCHANGED pidfile
           \/ /\ proc[p].pc = "release"
              /\ \/ /\ proc' = [proc EXCEPT ![p] = left]
                    /\ UNCHANGED pidfile
                 \/ /\ proc' = [proc EXCEPT ![p] = [left EXCEPT !.rel = @ + 1]]
                    /\ pidfile' = PidfileReleased(f, p)
              /\ UNCHANGED <<lpc, callOp>>
    /\ UNCHANGED <<config, calls, spawnedPid, processCache, gen, pipeData,
                   nextPid, flag, last, concurrent, fds>>

(* --------------------------- specification ----------------------------- *)

ProcessStep(p) ==
    \/ ChildBranch(p)
    \/ ChildExit(p)
    \/ GrandchildWritePid(p)
    \/ DaemonAcquire(p)
    \/ DaemonTarget(p)
    \/ NestedTargetStart(p)
    \/ NestedTargetReturn(p)
    \/ DaemonRelease(p)

ControllerStep(L) ==
    \/ StartSelectTimeout(L)
    \/ StartRead(L)

Next ==
    \/ \E L \in Launchers : Start(L)
    \/ \E L \in Launchers : Restart(L)
    \/ \E L \in Launchers, block \in BOOLEAN : Terminate(L, block)
    \/ \E L \in Launchers : Running(L)
    \/ \E L \in Launchers : Process(L)
    \/ \E L \in Launchers : Pid(L)
    \/ \E L \in Launchers : StartSelectTimeout(L)
    \/ \E L \in Launchers : StartRead(L)
    \/ \E p \in Pids : ChildBranch(p)
    \/ \E p \in Pids : ChildExit(p)
    \/ \E p \in Pids : EscapedExit(p)
    \/ \E p \in Pids : GrandchildWritePid(p)
    \/ \E p \in Pids : DaemonAcquire(p)
    \/ \E p \in Pids : DaemonTarget(p)
    \/ \E p \in Pids : NestedTargetStart(p)
    \/ \E p \in Pids : NestedTargetReturn(p)
    \/ \E p \in Pids : DaemonRelease(p)
    \/ \E p \in Pids : OnTerminateSignal(p)

Spec == Init /\ [][Next]_vars

\* The operating system schedules every runnable process, and the controller's
\* select and read return once they can.
FairSpec ==
    /\ Spec
    /\ \A p \in Pids : WF_vars(ProcessStep(p))
    /\ \A L \in Launchers : WF_vars(ControllerStep(L))

(* ------------- one daemonization, inside the forked process ------------ *)

launcherVars == <<daemonCls, pidfileOf, nested, lpc, callOp, spawnedPid, processCache,
                  gen, pipeData, proc, nextPid, pidfile, flag, last, concurrent, calls,
                  fds>>

\* Signals delivered to a daemon while its target runs.
MaxDeliveries == 1

Signals == {"SIGTERM", "SIGTSTP", "SIGTTIN", "SIGTTOU"}

\* An entry of signal_map: no entry, None, a callback, a callback that raises.
SignalMaps ==
    {m \in [Signals -> {"absent", "None", "callback", "failing"}] :
        \A sig \in Signals \ {"SIGTERM"} : m[sig] # "failing"}

\* self.signal_map = signal_map or {}
NoSignalMap == [sig \in Signals |-> "absent"]

OptionSets == [chroot : BOOLEAN, prevent_core : BOOLEAN, gidEq : BOOLEAN, uidEq : BOOLEAN]

\* util.change_process_owner: the group before the user, each only when it differs.
ChangeProcessOwnerMutant(o) ==
    (IF ~o.uidEq THEN <<"setuid">> ELSE <<>>) \o (IF ~o.gidEq THEN <<"setgid">> ELSE <<>>)

ChangeProcessOwner(o) ==
    (IF ~o.gidEq THEN <<"setgid">> ELSE <<>>) \o (IF ~o.uidEq THEN <<"setuid">> ELSE <<>>)

\* Daemon.setupProcessSession: the OS calls it makes, in the order it makes them.
SetupProcessSession(o) ==
    (IF o.chroot THEN <<"chdir(chroot_directory)", "chroot">> ELSE <<>>)
        \o (IF o.prevent_core THEN <<"getrlimit", "setrlimit">> ELSE <<>>)
        \o <<"umask", "chdir(working_directory)">>
        \o ChangeProcessOwner(o)
        \o <<"redirect(stdin)", "redirect(stdout)", "redirect(stderr)">>

AllOptions == [chroot |-> TRUE, prevent_core |-> TRUE, gidEq |-> FALSE, uidEq |-> FALSE]

\* The exception a failing OS call ends in: the helpers of util wrap the error
\* of chdir, chroot, getrlimit, umask, setgid and setuid in
\* DaemonOSEnvironmentError; setrlimit and the calls of redirect_stream
\* (os.open, fileno, os.dup2) are made outside any try.
RaisedBy(call) ==
    IF call \in {"chdir(chroot_directory)", "chroot", "getrlimit", "umask",
                 "chdir(working_directory)", "setgid", "setuid"}
    THEN "DaemonOSEnvironmentError"
    ELSE IF call = "setrlimit" THEN "ValueError" ELSE "OSError"

DaemonInit ==
    /\ LauncherInit
    /\ ~nested
    /\ pidfileOf = NestedBinding
    /\ dm \in {[NoDaemon EXCEPT !.pc = "call", !.opts = o, !.failAt = k] :
                  o \in OptionSets, k \in 0 .. Len(SetupProcessSession(AllOptions))}

\* launcher.py:170, daemon.setupProcessSession([pidWrite]): background.Daemon
\* takes no argument (TypeError); a subclass that takes the list runs the steps.
SessionCall ==
    /\ dm.pc = "call"
    /\ dm' = IF daemonCls = "Daemon"
             THEN [dm EXCEPT !.pc = "escaped", !.exc = "TypeError"]
             ELSE [dm EXCEPT !.pc = "session"]
    /\ UNCHANGED launcherVars

\* The next OS call of setupProcessSession: it succeeds, or it is the one that fails.
SessionStep ==
    /\ dm.pc = "session"
    /\ Len(dm.done) < Len(SetupProcessSession(dm.opts))
    /\ LET call == SetupProcessSession(dm.opts)[Len(dm.done) + 1]
       IN  dm' = IF dm.failAt = Len(dm.done) + 1
                 THEN [dm EXCEPT !.pc = "escaped", !.exc = RaisedBy(call)]
                 ELSE [dm EXCEPT !.done = Append(@, call)]
    /\ UNCHANGED launcherVars

\* setupProcessSession has returned: second fork, the grandchild writes its
\* pid and calls daemon.run(pidfile).
SessionReturn ==
    /\ dm.pc = "session"
    /\ Len(dm.done) = Len(SetupProcessSession(dm.opts))
    /\ dm' = [dm EXCEPT !.pc = "run"]
    /\ UNCHANGED launcherVars

GetSignalHandlersMutant(m) ==
    [sig \in Signals |->
        IF m[sig] \in {"callback", "failing"} THEN "user"
        ELSE IF sig = "SIGTERM" THEN "onTerminateSignal" ELSE "unchanged"]

\* Daemon.getSignalHandlers: a handler for every entry whose value is true
\* (`if handle:'), then SIGTERM set to onTerminateSignal.  A signal with no
\* handler in the result keeps the disposition the process had ("unchanged").
GetSignalHandlers(m) ==
    LET out == [sig \in Signals |->
                   IF m[sig] \in {"callback", "failing"} THEN "user" ELSE "unchanged"]
    IN  [out EXCEPT !["SIGTERM"] = "onTerminateSignal"]

\* Daemon.run: configureSystem() installs the handlers; the Daemon was built
\* with a signal map, or with none.
ConfigureSystem ==
    /\ dm.pc = "run"
    /\ \E given \in BOOLEAN :
       \E m \in (IF given THEN SignalMaps ELSE {NoSignalMap}) :
          dm' = [dm EXCEPT !.pc = "acquire", !.given = given, !.signal_map = m,
                           !.handlers = GetSignalHandlers(m),
                           !.events = Append(@, "configureSystem")]
    /\ UNCHANGED launcherVars

\* Daemon.run: pidfile.acquire(None), rc = 254, try, setupLogging()
DaemonRunAcquire ==
    /\ dm.pc = "acquire"
    /\ dm' = [dm EXCEPT !.pc = "target", !.held = TRUE, !.rc = RcAtTry,
                        !.events = Append(@, "acquire")]
    /\ UNCHANGED launcherVars

\* Daemon.onTerminateSignal: the user's SIGTERM entry, if true, is called; the
\* finally clause raises SystemExit whether or not that call raised.
OnTerminateSignalEvents(m) ==
    (IF m["SIGTERM"] \in {"callback", "failing"} THEN <<"userHandle">> ELSE <<>>)
        \o <<"SystemExit">>

\* A signal arrives while target runs.
Deliver(sig) ==
    /\ dm.pc = "target"
    /\ Cardinality({i \in 1 .. Len(dm.events) :
                       dm.events[i] \in {"userHandle", "SystemExit", "user", "default"}})
          < MaxDeliveries
    /\ dm' = IF dm.handlers[sig] = "onTerminateSignal"
             THEN \* SystemExit inside target: the bare except of run
                  [dm EXCEPT !.pc = "finally", !.sigterm = TRUE,
                             !.rc = RunExitCode(TRUE),
                             !.events = @ \o OnTerminateSignalEvents(dm.signal_map)]
             ELSE IF dm.handlers[sig] = "user"
             THEN [dm EXCEPT !.events = Append(@, "user")]
             ELSE \* no handler installed: the default action stops the process
                  [dm EXCEPT !.pc = "stopped", !.events = Append(@, "default")]
    /\ UNCHANGED launcherVars

\* target returns or raises.
DaemonRunTarget ==
    /\ dm.pc = "target"
    /\ \E raised \in BOOLEAN :
          dm' = [dm EXCEPT !.pc = "finally", !.rc = RunExitCode(raised),
                           !.events = Append(@, "target")]
    /\ UNCHANGED launcherVars

\* Daemon.run, outer finally: pidfile.release(); os._exit(rc)
DaemonRunFinally ==
    /\ dm.pc = "finally"
    /\ dm' = [dm EXCEPT !.pc = "exited", !.held = FALSE,
                        !.events = @ \o <<"release", "os._exit">>]
    /\ UNCHANGED launcherVars

DaemonNext ==
    \/ SessionCall
    \/ SessionStep
    \/ SessionReturn
    \/ ConfigureSystem
    \/ DaemonRunAcquire
    \/ \E sig \in Signals : Deliver(sig)
    \/ DaemonRunTarget
    \/ DaemonRunFinally

DaemonSpec == DaemonInit /\ [][DaemonNext]_vars

(* ------------------------------- claims -------------------------------- *)

SamePidfile(L, M) == pidfileOf[L] # NoPidfile /\ pidfileOf[L] = pidfileOf[M]

\* Launcher L is the only one bound to its PID file.
SolePidfile(L) ==
    pidfileOf[L] # NoPidfile /\ \A M \in Launchers \ {L} : pidfileOf[M] # pidfileOf[L]

Children(L, g) ==
    {p \in Pids : proc[p].role = "child" /\ proc[p].owner = L /\ proc[p].gen = g}

Grandchildren(L, g) ==
    {p \in Pids : proc[p].role = "grandchild" /\ proc[p].owner = L /\ proc[p].gen = g}

\* An OS call failed in a process forked for launcher L.
OsFailure(L) ==
    \E p \in Pids : /\ proc[p].owner = L
                    /\ proc[p].err \in {"DaemonOSEnvironmentError",
                                        "DaemonProcessDetachError"}

\* The start or restart of launcher L has returned a pid.
ReturnedPid(L) == lpc[L] = "idle" /\ gen[L] > 0 /\ spawnedPid[L] # None

\* C1: of the starts that overlap on one PID file path, at most one returns a
\* pid; the others end with a failure instead.
C1_MutualExclusion ==
    \A L, M \in Launchers :
        (L # M /\ SamePidfile(L, M) /\ concurrent[L] /\ concurrent[M])
            => ~(ReturnedPid(L) /\ ReturnedPid(M))

\* C2: start called on a launcher whose daemon is running fails with the
\* already-running lifecycle error (and neither forks nor changes spawned_pid).
C2_StartWhileRunning ==
    (last.op = "start" /\ last.at = "call" /\ last.live)
        => last.exc = "AlreadyRunning"

\* C3: one start runs the fork protocol once (one first child, at most one
\* grandchild per protocol), and when the pipe delivered data the value start
\* returns is the pid of that protocol's grandchild, stored as spawned_pid too.
C3_StartReturnsGrandchildPid ==
    /\ \A L \in Launchers : \A g \in 1..gen[L] :
          /\ Cardinality(Children(L, g)) = 1
          /\ Cardinality(Grandchildren(L, g)) <= 1
    /\ (last.at = "return" /\ last.op \in {"start", "restart"} /\ last.data # <<>>)
          => /\ last.kind = "int"
             /\ Grandchildren(last.L, gen[last.L]) = {last.ret}
             /\ spawnedPid[last.L] = last.ret

\* A start has returned the pid it read from the pipe.
C3_Witness ==
    /\ last.at = "return"
    /\ last.op = "start"
    /\ last.data # <<>>
    /\ last.ret \in Pids
    /\ spawnedPid[last.L] = last.ret

\* C4: once start has forked for a launcher that alone uses its PID file, the
\* daemon's target is eventually run and running eventually reports true
\* (unless an OS call of the protocol fails).
C4_SpawnLeadsToRunning ==
    \A L \in Launchers :
        (lpc[L] = "select" /\ callOp[L] = "start" /\ SolePidfile(L))
            ~> (OsFailure(L)
                  \/ (flag[L] /\ RunningQuery(L).exc = "none" /\ RunningQuery(L).ret))

\* C5: terminate called while the daemon is not running (no pid, or a pid
\* with no live process) fails with the not-running lifecycle error.
C5_TerminateWhileStopped ==
    (last.op = "terminate" /\ last.at = "call" /\ ~last.live)
        => last.exc = "NotRunning"

\* C6: terminate called while the daemon is running raises nothing and
\* requests the termination of the tracked process.
C6_TerminateRunning ==
    (last.op = "terminate" /\ last.at = "call" /\ last.live)
        => last.exc = "none"

\* C7: restart ends in the fork protocol of start whether or not the daemon
\* was running: nothing but a failed fork makes the call itself raise.
C7_RestartStarts ==
    (last.op = "restart" /\ last.at = "call")
        => last.exc \in {"none", "DaemonProcessDetachError"}

\* C8: running raises nothing and returns true exactly when the launcher's pid
\* names an existing, alive process.
C8_RunningIffAlive ==
    (last.op = "running")
        => /\ last.exc = "none"
           /\ last.ret = BoolInt(last.live)

\* C9: pid is the spawned pid whenever there is one, else the PID file's pid,
\* else none.
C9_PidPrefersSpawned ==
    \A L \in Launchers :
        PidQuery(L) =
            IF spawnedPid[L] # None THEN spawnedPid[L]
            ELSE IF pidfileOf[L] # NoPidfile THEN pidfile[pidfileOf[L]]
            ELSE None

\* The pid property was read while the PID file named another pid than the
\* launcher's own spawn, and returned the spawned one.
C9_Witness ==
    /\ last.op = "pid"
    /\ pidfileOf[last.L] # NoPidfile
    /\ pidfile[pidfileOf[last.L]] # None
    /\ spawnedPid[last.L] # None
    /\ pidfile[pidfileOf[last.L]] # spawnedPid[last.L]
    /\ last.ret = spawnedPid[last.L]

\* C10: process returns none or an OS-process handle, never anything else.
C10_ProcessReturnsHandle ==
    (last.op = "process") => last.kind \in {"none", "Process"}

\* C12: a daemon instance that has written its pid to the handshake pipe goes
\* on to persist that same pid in the PID file when it acquires it: once past
\* acquire it holds the file, under the pid the pipe reported.
C12_PidRoundTrip ==
    \A p \in Pids :
        (/\ proc[p].role = "grandchild"
         /\ pidfileOf[proc[p].owner] # NoPidfile
         /\ p \notin Signalled
         /\ proc[p].pc \in {"target", "release", "exited"})
            => /\ proc[p].acq
               /\ StrToInt(IntToStr(p)) = p
               /\ proc[p].pc \in {"target", "release"}
                     => pidfile[pidfileOf[proc[p].owner]] = StrToInt(IntToStr(p))

\* C13: a start whose handshake delivered no data (select timed out, or the
\* pipe was closed empty) returns none, raises nothing, stores no pid and
\* leaves the controller out of the wait.
C13_HandshakeFailure ==
    (last.at = "return" /\ last.data = <<>>)
        => /\ last.exc = "none"
           /\ last.kind = "none"
           /\ last.ret = None
           /\ spawnedPid[last.L] = None
           /\ lpc[last.L] = "idle"

\* A start returned none after its first child failed and the pipe was closed
\* with nothing in it.
C13_Witness ==
    /\ last.at = "return"
    /\ last.op = "start"
    /\ last.data = <<>>
    /\ last.ret = None
    /\ Writers(last.L) = {}
    /\ \E p \in Children(last.L, gen[last.L]) : proc[p].err # "none"

\* C14: after a start that returned no pid, a running query on that launcher
\* reports false (and raises nothing), also when the process tree of that
\* start lives on and acquires the PID file.
C14_NoPidNotRunning ==
    (/\ last.op = "running"
     /\ gen[last.L] > 0
     /\ spawnedPid[last.L] = None
     /\ SolePidfile(last.L))
        => /\ last.exc = "none"
           /\ last.ret = BoolInt(FALSE)

\* C15: a daemon whose target has ended exits with code 255 when a failure
\* escaped from target and with code 0 when target returned.
C15_ExitCode ==
    \A p \in Pids :
        (proc[p].acq /\ p \notin Signalled /\ proc[p].pc \in {"release", "exited"})
            => proc[p].rc = IF proc[p].err = "TargetError" THEN 255 ELSE 0

\* C16: a daemon that acquired the PID file and has exited released the file
\* exactly once and left through os._exit in run, not by an exception out of run.
C16_ReleaseOnceAndExit ==
    \A p \in Pids :
        (proc[p].acq /\ proc[p].pc = "exited")
            => /\ proc[p].rel = 1
               /\ proc[p].err # "SystemExit"
               /\ \A f \in Paths : pidfile[f] # p

\* C17: no PID file is locked under the pid of a process that has exited.
C17_NoStaleLock ==
    \A f \in Paths : pidfile[f] # None => Exists(pidfile[f])

\* C18: with the second launcher started from inside the first daemon's
\* target, each on a PID file of its own: once the outer start has forked, the
\* inner daemon's target is eventually run (unless an OS call of either
\* protocol fails or a daemon is sent SIGTERM), and no process of the inner
\* launcher ever holds the outer PID file.
C18_NestedStart ==
    /\ [](nested => \A p \in Pids :
                        proc[p].owner = Inner => pidfile[pidfileOf[Outer]] # p)
    /\ (nested /\ lpc[Outer] = "select" /\ callOp[Outer] = "start")
          ~> (OsFailure(Outer) \/ OsFailure(Inner) \/ Signalled # {} \/ flag[Inner])

\* C19: the first child only creates the session and forks: it never writes
\* to the pipe, runs the daemon, acquires or releases the PID file, and once
\* its fork has returned it does nothing but os._exit(0).
C19_FirstChildOnlyForks ==
    \A p \in Pids :
        proc[p].role = "child"
            => /\ proc[p].pc \in {"setsid", "exit", "escaped", "exited"}
               /\ ~proc[p].acq
               /\ proc[p].rel = 0
               /\ \A f \in Paths : pidfile[f] # p
               /\ Grandchildren(proc[p].owner, proc[p].gen) # {}
                     => /\ proc[p].pc \in {"exit", "exited"}
                        /\ proc[p].err = "none"
                        /\ proc[p].pc = "exited" => proc[p].rc = 0

\* A first child has exited after its fork while its grandchild runs the daemon.
C19_Witness ==
    \E p \in Pids :
        /\ proc[p].role = "child"
        /\ proc[p].pc = "exited"
        /\ \E q \in Grandchildren(proc[p].owner, proc[p].gen) : proc[q].pc = "target"

\* C20: a first child in which the session setup or the second fork failed
\* exits; it never carries on in the code that called start.
C20_ChildFailureExits ==
    \A p \in Pids : proc[p].role = "child" => proc[p].pc # "escaped"

\* The order of the session setup as the specification gives it.
SessionOrder ==
    <<"chdir(chroot_directory)", "chroot", "getrlimit", "setrlimit", "umask",
      "chdir(working_directory)", "setgid", "setuid",
      "redirect(stdin)", "redirect(stdout)", "redirect(stderr)">>

Rank(call) == CHOOSE i \in 1 .. Len(SessionOrder) : SessionOrder[i] = call

\* The step is part of the setup under the daemon's options.
Required(call, o) ==
    IF call \in {"chdir(chroot_directory)", "chroot"} THEN o.chroot
    ELSE IF call \in {"getrlimit", "setrlimit"} THEN o.prevent_core
    ELSE IF call = "setgid" THEN ~o.gidEq
    ELSE IF call = "setuid" THEN ~o.uidEq
    ELSE TRUE

SessionComplete ==
    \A k \in 1 .. Len(SessionOrder) :
        (\E i \in 1 .. Len(dm.done) : dm.done[i] = SessionOrder[k])
            <=> Required(SessionOrder[k], dm.opts)

\* C21: the steps of the session setup are made in the given order, none
\* twice: chroot (chdir, then chroot) if configured, the core limit if
\* configured, umask, working directory, group id then user id (each only when
\* it differs), then stdin, stdout, stderr; and all of them are done before
\* the daemon configures, acquires or runs target.
C21_SessionOrder ==
    /\ \A i, j \in 1 .. Len(dm.done) :
          i < j => Rank(dm.done[i]) < Rank(dm.done[j])
    /\ \A i \in 1 .. Len(dm.done) : Required(dm.done[i], dm.opts)
    /\ dm.pc \in {"run", "acquire", "target", "finally", "stopped", "exited"}
          => SessionComplete
    /\ dm.events # <<>> => SessionComplete

\* A daemon with every optional step configured has reached its target.
C21_Witness ==
    /\ dm.pc = "target"
    /\ dm.opts = AllOptions
    /\ dm.done = SessionOrder

\* C22: when a step of the session setup fails, the failure is an
\* OS-environment error, no later step is made, and the daemonization neither
\* acquires the PID file nor runs target.
C22_SetupFailure ==
    (dm.pc = "escaped" /\ dm.exc # "TypeError")
        => /\ dm.exc = "DaemonOSEnvironmentError"
           /\ Len(dm.done) = dm.failAt - 1
           /\ ~dm.held
           /\ dm.events = <<>>

C25_SignalDispositions ==
    dm.pc \in {"acquire", "target", "finally", "stopped", "exited"}
        => \A sig \in Signals \ {"SIGTERM"} :
              /\ dm.signal_map[sig] = "None" => dm.handlers[sig] = "SIG_IGN"
              /\ dm.signal_map[sig] = "callback" => dm.handlers[sig] = "user"
              /\ ~dm.given => dm.handlers[sig] = "SIG_IGN"

\* C26: when start (or the start of restart) has returned in the controller,
\* no end of a handshake pipe of that launcher is open in the controller,
\* whether data was read, the payload was empty, or the wait timed out.
C26_PipeClosed ==
    (last.at = "return" /\ last.op \in {"start", "restart"} /\ HasController(last.L))
        => fds[last.L] = NoFds

\* C27: when a live daemon holds the PID file of a launcher, with its pid in
\* the file, running on that launcher reports true and start on it is refused
\* with AlreadyRunning.
C27_RunningSeesHolder ==
    (last.at = "call" /\ last.held)
        => /\ last.op = "running" => last.exc = "none" /\ last.ret = BoolInt(TRUE)
           /\ last.op = "start" => last.exc = "AlreadyRunning"

\* The steps of the grandchild branch, in order.
GrandchildOrder == <<"write", "close", "configureSystem", "acquire", "target">>

IsPrefix(s, t) == Len(s) <= Len(t) /\ s = SubSeq(t, 1, Len(s))

\* C23: a grandchild writes its pid and closes W, then calls run; run
\* configures once, then acquires the PID file, then invokes target; and a
\* process that has invoked target holds the PID file until it releases it.
C23_GrandchildOrder ==
    \A p \in Pids :
        proc[p].role = "grandchild"
            => /\ IsPrefix(proc[p].did, GrandchildOrder)
               /\ proc[p].pc # "write" => Len(proc[p].did) >= 2 /\ ~proc[p].w
               /\ proc[p].pc \in {"target", "nested", "release"}
                     => /\ proc[p].acq
                        /\ PidfileReadPid(pidfileOf[proc[p].owner]) = p
               /\ (\E i \in 1 .. Len(proc[p].did) : proc[p].did[i] = "target")
                     => proc[p].acq

\* A grandchild has made every step and still holds the PID file.
C23_Witness ==
    \E p \in Pids :
        /\ proc[p].role = "grandchild"
        /\ proc[p].did = GrandchildOrder
        /\ proc[p].pc = "release"
        /\ PidfileReadPid(pidfileOf[proc[p].owner]) = p

====
